---- MODULE Spec2Model ----
(***************************************************************************)
(* RL-Eval-Leaderboard: the sandboxed evaluation of a submission.          *)
(*   app/core/docker.py          parse_evaluation_output,                  *)
(*                               run_evaluation_container                  *)
(*   app/services/evaluation.py  evaluate_submission                       *)
(*   app/services/leaderboard.py RedisLeaderboard.add_submission,          *)
(*                               warm_redis_from_db                        *)
(*   app/api/submissions.py      submit_rl_script                          *)
(*   app/core/celery.py          evaluate_submission_task                  *)
(*   app/main.py                 startup_event                             *)
(*                                                                         *)
(* Text is a sequence of characters.  The characters of a container's      *)
(* output are "{", "}", ",", a blank, a line break, a letter of free text, *)
(* and one character for each JSON member the output may hold (MemberKey,  *)
(* MemberVal give the member it stands for).                               *)
(***************************************************************************)
EXTENDS Integers, Sequences, FiniteSets, TLC

\* ------------------------------------------------------------------ bounds
MaxLogLen == 4      \* SpecParse: every text of at most this many characters
MaxLines == 3       \* SpecParse: every text of at most this many chosen lines
MaxFiles == 2       \* SpecSubmit: every `files` list of at most this many uploads
MaxRedeliveries == 1 \* SpecTask: the broker hands an unacknowledged message out again at most this often

\* ---------------------------------------------------------- JSON and text
NoneVal == <<"none", "">>          \* Python None (JSON null), and the value of an absent key

LineBreaks == {"\n"}
Blanks == {" "}
Members == {"s1", "s2", "sq", "sn", "eb", "ee", "nk"}

MemberKey(c) ==
    CASE c \in {"s1", "s2", "sq", "sn"} -> "score"
      [] c \in {"eb", "ee"} -> "error"
      [] OTHER -> "notes"

\* A JSON value is <<type, text>>.
MemberVal(c) ==
    CASE c = "s1" -> <<"num", "1">>
      [] c = "s2" -> <<"num", "2">>
      [] c = "sq" -> <<"str", "high">>
      [] c = "sn" -> NoneVal
      [] c = "eb" -> <<"str", "boom">>
      [] c = "ee" -> <<"str", "">>
      [] OTHER -> <<"str", "ok">>

\* Python truth value of a JSON value (None, "", 0 are false).
Truthy(v) ==
    CASE v[1] = "none" -> FALSE
      [] v[1] = "str" -> v[2] # ""
      [] v[1] = "num" -> v[2] # "0"
      [] OTHER -> TRUE

IsNumeric(v) == v[1] = "num"

\* A Python dict over the keys the program reads; has[k] is `k in dict`.
DictKeys == {"score", "error", "notes", "raw_output"}
EmptyDict ==
    [has |-> [k \in DictKeys |-> FALSE],
     score |-> NoneVal, error |-> NoneVal, notes |-> NoneVal, raw_output |-> <<>>]

DictPut(d, k, v) ==
    CASE k = "score" -> [d EXCEPT !.has["score"] = TRUE, !.score = v]
      [] k = "error" -> [d EXCEPT !.has["error"] = TRUE, !.error = v]
      [] OTHER -> [d EXCEPT !.has["notes"] = TRUE, !.notes = v]

\* s[-n:]
Tail_(s, n) == IF Len(s) <= n THEN s ELSE SubSeq(s, Len(s) - n + 1, Len(s))

\* str.splitlines(): the text between line breaks; no empty last line
SplitLines(s) ==
    LET B == {i \in 1..Len(s) : s[i] \in LineBreaks}
        n == Cardinality(B)
        brk(k) == IF k = 0 THEN 0
                  ELSE IF k = n + 1 THEN Len(s) + 1
                  ELSE CHOOSE i \in B : Cardinality({j \in B : j <= i}) = k
        count == IF Len(s) = 0 \/ s[Len(s)] \in LineBreaks THEN n ELSE n + 1
    IN  [k \in 1..count |-> SubSeq(s, brk(k - 1) + 1, brk(k) - 1)]

\* str.strip()
Strip(s) ==
    LET K == {i \in 1..Len(s) : s[i] \notin Blanks \cup LineBreaks}
    IN  IF K = {} THEN <<>>
        ELSE SubSeq(s, CHOOSE i \in K : \A j \in K : i <= j,
                       CHOOSE i \in K : \A j \in K : j <= i)

\* str.rfind(c): the last index of c, 0 when there is none (Python's -1)
RFind(s, c) ==
    IF \E i \in 1..Len(s) : s[i] = c
    THEN CHOOSE i \in 1..Len(s) : s[i] = c /\ \A j \in (i + 1)..Len(s) : s[j] # c
    ELSE 0

IsJsonSpace(c) == c \in Blanks \cup LineBreaks

\* The members of an object body: member ("," member)*
WellFormedMembers(t) ==
    \/ t = <<>>
    \/ /\ Len(t) % 2 = 1
       /\ \A i \in 1..Len(t) : IF i % 2 = 1 THEN t[i] \in Members ELSE t[i] = ","

RECURSIVE MembersToDict(_, _, _)
MembersToDict(t, i, d) ==
    IF i > Len(t) THEN d
    ELSE MembersToDict(t, i + 2, DictPut(d, MemberKey(t[i]), MemberVal(t[i])))

\* json.loads(text): ok is FALSE where json.loads raises.
JsonLoads(text) ==
    LET t == SelectSeq(text, LAMBDA c : ~IsJsonSpace(c))
        body == SubSeq(t, 2, Len(t) - 1)
    IN  IF Len(t) >= 2 /\ t[1] = "{" /\ t[Len(t)] = "}" /\ WellFormedMembers(body)
        THEN [ok |-> TRUE, val |-> MembersToDict(body, 1, EmptyDict)]
        ELSE [ok |-> FALSE, val |-> EmptyDict]

ErrorDict(msg) == DictPut(EmptyDict, "error", <<"str", msg>>)

\* docker.py:19
NonBlankLines(logs) ==
    LET raw == SplitLines(logs)
        stripped == [i \in 1..Len(raw) |-> Strip(raw[i])]
    IN  SelectSeq(stripped, LAMBDA l : l # <<>>)

\* docker.py:24
BraceDelimited(line) == line # <<>> /\ Head(line) = "{" /\ line[Len(line)] = "}"

\* docker.py:22-28: the index of the line the loop returns from, 0 if it falls through
ScanForward(lines, i) ==
    IF \E k \in 1..i : BraceDelimited(lines[k]) /\ JsonLoads(lines[k]).ok
    THEN CHOOSE k \in 1..i :
            /\ BraceDelimited(lines[k]) /\ JsonLoads(lines[k]).ok
            /\ \A j \in 1..(k - 1) : ~(BraceDelimited(lines[j]) /\ JsonLoads(lines[j]).ok)
    ELSE 0

RECURSIVE ScanBackward(_, _)
ScanBackward(lines, i) ==
    IF i = 0 THEN 0
    ELSE IF BraceDelimited(lines[i]) /\ JsonLoads(lines[i]).ok THEN i
    ELSE ScanBackward(lines, i - 1)

RawTailLen == 500

\* docker.py:20-21
NoLinesResult(logs) == ErrorDict("No output received")

\* docker.py:38
NoJsonResultNoTail(logs) == ErrorDict("No JSON result found in logs")

NoJsonResult(logs) ==
    [ErrorDict("No JSON result found in logs") EXCEPT
        !.has["raw_output"] = TRUE, !.raw_output = Tail_(logs, RawTailLen)]

\* docker.py:30-37
FallbackCandidate(logs) ==
    LET start == RFind(logs, "{")
        end == RFind(logs, "}")
    IN  IF start # 0 /\ end # 0 /\ end > start
        THEN JsonLoads(SubSeq(logs, start, end))
        ELSE [ok |-> FALSE, val |-> EmptyDict]

\* docker.py:15-38
parse_evaluation_output(logs) ==
    LET lines == NonBlankLines(logs)
        hit == ScanBackward(lines, Len(lines))
    IN  IF lines = <<>> THEN NoLinesResult(logs)
        ELSE IF hit # 0 THEN JsonLoads(lines[hit]).val
        ELSE IF FallbackCandidate(logs).ok THEN FallbackCandidate(logs).val
        ELSE NoJsonResult(logs)

\* ---------------------------------------------------------------- inputs
ParseAlphabet == {"{", "}", "\n", " ", "x", "s1"}

RECURSIVE TextsUpTo(_)
TextsUpTo(n) ==
    IF n = 0 THEN {<<>>}
    ELSE LET shorter == TextsUpTo(n - 1)
         IN  shorter \cup {Append(t, c) : t \in {u \in shorter : Len(u) = n - 1}, c \in ParseAlphabet}

LineChoices ==
    { <<"x">>,
      <<" ">>,
      <<"{", "s1", "}">>,
      <<"{", "s2", "}">>,
      <<" ", "{", "s1", "}", " ">>,
      <<"{", "x", "}">>,
      <<"x", "{", "s2", "}">>,
      <<"{", "eb", "}">>,
      <<"{", "s1", ",", "nk", "}">>,
      <<"{", "s1", ",">> }

RECURSIVE LinesUpTo(_)
LinesUpTo(n) ==
    IF n = 0 THEN {<<>>}
    ELSE LET fewer == LinesUpTo(n - 1)
         IN  fewer \cup LineChoices
                \cup {t \o <<"\n">> \o l : t \in (fewer \ {<<>>}), l \in LineChoices}

\* Texts longer than the diagnostic tail of docker.py:38.
LongTexts == {[i \in 1..(RawTailLen + k) |-> IF i = 1 THEN "{" ELSE "x"] : k \in 0..2}

ParseInputs == TextsUpTo(MaxLogLen) \cup LinesUpTo(MaxLines) \cup LongTexts

\* ------------------------------------------------ the container's result
ScoreMissingMsg ==
    "No 'score' found in script output. Ensure your script prints a single JSON line with a 'score' field."
NonZeroMsg == "Evaluator exited non-zero"
ImageNotFoundMsg == "Docker image not found"
ApiErrorMsg == "Docker API error"
StageFailureMsg(stage) == "Container execution failed at stage '" \o stage \o "'"
EvalFallbackMsg ==
    "No 'score' found in script output or evaluator exited non-zero. Ensure your script prints a single JSON line with a 'score' field."

\* The order in which run_evaluation_container assigns `stage`.
Stages ==
    <<"init", "download_submission", "create_container", "inject_script",
      "start", "wait", "collect_logs">>
StageIndex(s) == CHOOSE i \in 1..Len(Stages) : Stages[i] = s

\* The dict run_evaluation_container returns; has is the set of its keys.
NoResult ==
    [has |-> {}, status |-> 0, logs |-> <<>>, output |-> EmptyDict,
     error |-> NoneVal, stage |-> "init"]

\* bytes.decode(errors="replace"): an invalid byte becomes U+FFFD
DecodeReplace(bytes) == [i \in 1..Len(bytes) |-> IF bytes[i] = "\\xff" THEN "\\ufffd" ELSE bytes[i]]

\* bytes.decode(): raises on an invalid byte
DecodeStrictOk(bytes) == \A i \in 1..Len(bytes) : bytes[i] # "\\xff"

\* docker.py:118
EnvIdMissingNoStrip(e) == e = <<>>

EnvIdMissing(e) == e = <<>> \/ Strip(e) = <<>>

\* wait_result.get("StatusCode", 1) with the default taken always
ExitCodeOfDefault(wait_result) == 1

\* docker.py:215
ExitCodeOf(wait_result) == IF wait_result.has THEN wait_result.StatusCode ELSE 1

\* docker.py:245-246
SurfacedErrorAlwaysSynth(parsed) == <<"str", ScoreMissingMsg>>

SurfacedError(parsed) ==
    LET parsed_error == IF parsed.has["error"] THEN parsed.error ELSE NoneVal
    IN  IF Truthy(parsed_error) THEN parsed_error ELSE <<"str", ScoreMissingMsg>>

\* docker.py:232-247
BuildResponse(exit_code, logs) ==
    LET parsed_output == parse_evaluation_output(logs)
        response == [has |-> {"status", "logs", "output"}, status |-> exit_code,
                     logs |-> logs, output |-> parsed_output,
                     error |-> NoneVal, stage |-> "init"]
    IN  IF exit_code # 0
        THEN [response EXCEPT !.has = @ \cup {"error"}, !.error = <<"str", NonZeroMsg>>]
        ELSE IF ~parsed_output.has["score"]
             THEN [response EXCEPT !.has = @ \cup {"error"},
                                   !.error = SurfacedError(parsed_output)]
             ELSE response

LogsTailLen == 1000

\* docker.py:249-273
ErrorResponse(kind, stage, logs) ==
    CASE kind = "NotFound" ->
            [NoResult EXCEPT !.has = {"error"}, !.error = <<"str", ImageNotFoundMsg>>]
      [] kind = "APIError" ->
            [NoResult EXCEPT !.has = {"error"}, !.error = <<"str", ApiErrorMsg>>]
      [] OTHER ->
            [NoResult EXCEPT !.has = {"error", "stage", "logs"},
                             !.error = <<"str", StageFailureMsg(stage)>>,
                             !.stage = stage,
                             !.logs = Tail_(logs, LogsTailLen)]

\* evaluation.py:81-82
IsSuccessIgnoringStatus(result) == result.output.has["score"]

IsSuccess(result) ==
    /\ "status" \in result.has /\ result.status = 0
    /\ "output" \in result.has /\ result.output.has["score"]

EvalTailLen == 500

\* evaluation.py:120-131
FailureError(result) ==
    LET e == IF "error" \in result.has THEN result.error ELSE NoneVal
        logs == IF "logs" \in result.has THEN result.logs ELSE <<>>
    IN  [msg |-> IF Truthy(e) THEN e ELSE <<"str", EvalFallbackMsg>>,
         tail |-> Tail_(logs, EvalTailLen)]

NoError == [msg |-> NoneVal, tail |-> <<>>]
SystemError == [msg |-> <<"str", "System error">>, tail |-> <<>>]

\* ---------------------------------------------------------------- inputs
EnvIds == { <<>>, <<" ">>, <<"C">> }
ExitCodes == {0, 1, 3}

\* What the sandboxed process may print (bytes).
ContainerLogs ==
    { <<>>,
      <<"x">>,
      <<"{", "s1", "}">>,
      <<"{", "s1", "}", "\n", "{", "s2", "}">>,
      <<"{", "sq", "}">>,
      <<"{", "sn", "}">>,
      <<"{", "eb", "}">>,
      <<"{", "ee", "}">>,
      <<"{", "nk", "}">>,
      <<"{", "s1", ",", "eb", "}">>,
      <<"\\xff", "\n", "{", "s1", "}">> }

ApiFailures == {"NotFound", "APIError", "Exception"}

\* ------------------------------------------------- the submitted files
\* A file name is a sequence of parts: "/", an extension (".py", ".PY", ".txt")
\* or a word.  A file's bytes are one of Contents.
CanonicalName == <<"submission", ".py">>

\* os.path.basename: what follows the last "/"
Basename(n) ==
    LET slashes == {i \in 1..Len(n) : n[i] = "/"}
        last == IF slashes = {} THEN 0 ELSE CHOOSE i \in slashes : \A j \in slashes : j <= i
    IN  SubSeq(n, last + 1, Len(n))

\* str.endswith(".py")
EndsWithPy(n) == Len(n) > 0 /\ n[Len(n)] = ".py"

\* str.lower().endswith(".py")
LowerEndsWithPy(n) == Len(n) > 0 /\ n[Len(n)] \in {".py", ".PY"}

\* dict[key] = value: a key already there keeps its place and takes the value
DictSet(m, k, v) ==
    IF \E i \in 1..Len(m) : m[i].name = k
    THEN [i \in 1..Len(m) |-> IF m[i].name = k THEN [name |-> k, content |-> v] ELSE m[i]]
    ELSE Append(m, [name |-> k, content |-> v])

\* submissions.py:94-99
RECURSIVE file_bytes_map(_)
file_bytes_map(files) ==
    IF files = <<>> THEN <<>>
    ELSE LET f == files[Len(files)]
         IN  DictSet(file_bytes_map(SubSeq(files, 1, Len(files) - 1)),
                     Basename(f.filename), f.content)

\* dict.get(key)
MapGet(m, k) == LET i == CHOOSE i \in 1..Len(m) : m[i].name = k IN m[i].content

\* submissions.py:105-123 with the alias added always
BuildBundleAliasAlways(files, chosen_main) ==
    LET m == file_bytes_map(files)
    IN  Append(m, [name |-> CanonicalName, content |-> MapGet(m, chosen_main)])

\* submissions.py:105-123: the members of the tar archive, in the order written
BuildBundle(files, chosen_main) ==
    LET m == file_bytes_map(files)
    IN  IF chosen_main # CanonicalName
        THEN Append(m, [name |-> CanonicalName, content |-> MapGet(m, chosen_main)])
        ELSE m

\* docker.py:188-196 without the size of line 191: the member is written empty
BuildSingleTarNoSize(script_bytes) ==
    << [name |-> CanonicalName, content |-> ""] >>

\* docker.py:188-196
BuildSingleTar(script_bytes) ==
    << [name |-> CanonicalName, content |-> script_bytes] >>

\* put_archive: the files under /home/appuser after the archive is unpacked; a
\* later member replaces an earlier one of the same name
Extract(archive) ==
    { [name |-> archive[i].name, content |-> archive[i].content] :
        i \in {j \in 1..Len(archive) :
                 \A k \in (j + 1)..Len(archive) : archive[k].name # archive[j].name} }

\* submissions.py:44-52
SubmissionIdOf(client_id) ==
    CASE client_id = "none" -> "uuid4"
      [] client_id = "uuid" -> "client"
      [] OTHER -> "invalid"

\* submissions.py:54-55
HasMany(req) == Len(req.files) > 0
HasOne(req) == req.file.given

\* submissions.py:76-82
ChosenMain(req) == Basename(req.main_file.name)
SafeNames(req) == {Basename(req.files[i].filename) : i \in 1..Len(req.files)}

\* submissions.py:43-89, 142-145 without the test of line 87
SubmitCheckNoMainPy(req) ==
    IF SubmissionIdOf(req.client_id) = "invalid" THEN "bad_client_id"
    ELSE IF ~HasMany(req) /\ ~HasOne(req) THEN "no_file"
    ELSE IF HasMany(req)
    THEN IF \E i \in 1..Len(req.files) : req.files[i].filename = <<>> THEN "empty_filename"
         ELSE IF ~\E n \in SafeNames(req) : LowerEndsWithPy(n) THEN "no_py"
         ELSE IF req.main_file.set /\ req.main_file.name # <<>>
              THEN IF ChosenMain(req) \notin SafeNames(req) THEN "main_not_found"
                   ELSE "ok"
              ELSE "missing_main"
    ELSE IF ~EndsWithPy(req.file.filename) THEN "not_py"
    ELSE "ok"

\* submissions.py:43-89, 142-145 with the test of main_file made first
SubmitCheckMainFirst(req) ==
    IF SubmissionIdOf(req.client_id) = "invalid" THEN "bad_client_id"
    ELSE IF ~HasMany(req) /\ ~HasOne(req) THEN "no_file"
    ELSE IF HasMany(req)
    THEN IF ~(req.main_file.set /\ req.main_file.name # <<>>) THEN "missing_main"
         ELSE IF \E i \in 1..Len(req.files) : req.files[i].filename = <<>> THEN "empty_filename"
         ELSE IF ~\E n \in SafeNames(req) : LowerEndsWithPy(n) THEN "no_py"
         ELSE IF ChosenMain(req) \notin SafeNames(req) THEN "main_not_found"
         ELSE IF ~LowerEndsWithPy(ChosenMain(req)) THEN "main_not_py"
         ELSE "ok"
    ELSE IF ~EndsWithPy(req.file.filename) THEN "not_py"
    ELSE "ok"

\* submissions.py:43-89, 142-145: the validation that fails first, or "ok"
SubmitCheck(req) ==
    IF SubmissionIdOf(req.client_id) = "invalid" THEN "bad_client_id"
    ELSE IF ~HasMany(req) /\ ~HasOne(req) THEN "no_file"
    ELSE IF HasMany(req)
    THEN IF \E i \in 1..Len(req.files) : req.files[i].filename = <<>> THEN "empty_filename"
         ELSE IF ~\E n \in SafeNames(req) : LowerEndsWithPy(n) THEN "no_py"
         ELSE IF req.main_file.set /\ req.main_file.name # <<>>
              THEN IF ChosenMain(req) \notin SafeNames(req) THEN "main_not_found"
                   ELSE IF ~LowerEndsWithPy(ChosenMain(req)) THEN "main_not_py"
                   ELSE "ok"
              ELSE "missing_main"
    ELSE IF ~EndsWithPy(req.file.filename) THEN "not_py"
    ELSE "ok"

\* What a request may carry.
UploadNames ==
    { <<>>, <<"a", ".py">>, <<"b", ".txt">>, <<"submission", ".py">>,
      <<"d", "/", "a", ".py">>, <<"A", ".PY">> }
Contents == {"p", "q"}
Uploads == [filename : UploadNames, content : Contents]
FileLists == UNION {[1..n -> Uploads] : n \in 0..MaxFiles}
NoFile == [given |-> FALSE, filename |-> <<>>, content |-> "p"]
SingleFiles ==
    {NoFile} \cup
    [given : {TRUE},
     filename : {<<>>, <<"a", ".py">>, <<"b", ".txt">>, <<"A", ".PY">>, <<"d", "/", "a", ".py">>},
     content : Contents]
NoMain == [set |-> FALSE, name |-> <<>>]
MainFiles == {NoMain} \cup [set : {TRUE}, name : UploadNames \cup {<<"z", ".py">>}]
ClientIds == {"none", "uuid", "bad"}
Requests ==
    { r \in [file : SingleFiles, files : FileLists, main_file : MainFiles, client_id : ClientIds] :
        r.files # <<>> => r.file \in {NoFile, [given |-> TRUE, filename |-> <<"a", ".py">>, content |-> "p"]} }
NoRequest == [file |-> NoFile, files |-> <<>>, main_file |-> NoMain, client_id |-> "none"]

\* ------------------------------------------------- the container's name
\* A submission id is a sequence of characters; NameChars are those the name keeps.
NameChars == {"e", "v", "a", "l", "-", "b", "_", "."}
NameLimit == 63

\* re.sub(r'[^a-zA-Z0-9_.-]', '', text)
RECURSIVE Sanitize(_)
Sanitize(text) ==
    IF text = <<>> THEN <<>>
    ELSE IF text[1] \in NameChars THEN <<text[1]>> \o Sanitize(Tail(text))
    ELSE Sanitize(Tail(text))

\* docker.py:132
ContainerName(submission_id) ==
    LET kept == Sanitize(<<"e", "v", "a", "l", "-">> \o submission_id)
    IN  SubSeq(kept, 1, IF Len(kept) < NameLimit THEN Len(kept) ELSE NameLimit)

\* The submission ids of two evaluation tasks that run at the same time.
SubmissionIds == { <<"a">>, <<"a", "/">>, <<"b">> }
Runs == {1, 2}

\* docker.py:134-137, 144-148, 154-170: the keyword arguments of containers.create
CreateArgsIdInCommand(submission_id, env_id) ==
    [command |-> <<"/home/appuser/entrypoint.sh", " ">> \o env_id,
     image |-> "EVALUATOR_IMAGE",
     name |-> ContainerName(submission_id),
     labels |-> [submission_id |-> submission_id, env_id |-> env_id],
     environment |-> [ENV_ID |-> env_id,
                      SCRIPT_PATH |-> <<"/home/appuser/submission.py">>,
                      SUBMISSION_ID |-> submission_id],
     network_mode |-> "none",
     mem_limit |-> "512m",
     pids_limit |-> 50,
     cpu_quota |-> 50000,
     security_opt |-> <<"no-new-privileges">>,
     cap_drop |-> <<"ALL">>,
     detach |-> TRUE]

CreateArgs(submission_id, env_id) ==
    [command |-> <<"/home/appuser/entrypoint.sh">>,
     image |-> "EVALUATOR_IMAGE",
     name |-> ContainerName(submission_id),
     labels |-> [submission_id |-> submission_id, env_id |-> env_id],
     environment |-> [ENV_ID |-> env_id,
                      SCRIPT_PATH |-> <<"/home/appuser/submission.py">>,
                      SUBMISSION_ID |-> submission_id],
     network_mode |-> "none",
     mem_limit |-> "512m",
     pids_limit |-> 50,
     cpu_quota |-> 50000,
     security_opt |-> <<"no-new-privileges">>,
     cap_drop |-> <<"ALL">>,
     detach |-> TRUE]

\* No call of containers.create yet.
NoCreate == [made |-> FALSE, args |-> CreateArgs(<<>>, <<>>)]

\* The env_id of a run that gets as far as creating a container.
RunEnvIds == { <<"C">>, <<"D">> }

\* --------------------------------------------------------- the leaderboard
\* The completed submissions of one environment: Seeded have their row in
\* leaderboard_entries already, Adding are being added by add_submission.
Seeded == {"s0"}
Adding == {"s1", "s2"}
ScoreOf(id) == CASE id = "s0" -> 3 [] id = "s1" -> 1 [] OTHER -> 2

\* leaderboard.py:73
limit_per_env == 1000

\* leaderboard.py:83-88: order_by(score.desc()).limit(limit_per_env).all()
RECURSIVE OrderByScore(_)
OrderByScore(ids) ==
    IF ids = {} THEN <<>>
    ELSE LET top == CHOOSE i \in ids : \A k \in ids : ScoreOf(k) <= ScoreOf(i)
         IN  <<top>> \o OrderByScore(ids \ {top})

QueryRows(ids) ==
    LET all == OrderByScore(ids)
    IN  SubSeq(all, 1, IF Len(all) < limit_per_env THEN Len(all) ELSE limit_per_env)

\* ----------------------------------------------------------------- state
VARIABLES
    plogs,          \* the text handed to parse_evaluation_output
    pdone,          \* whether parse_evaluation_output has returned
    presult,        \* what it returned
    pc,             \* where the evaluation of the submission stands
    env_id,         \* Submission.env_id of the submission
    stored,         \* the artifacts of the submission in storage: "tar", "py"
    dbRow,          \* the committed submissions row
    sub,            \* the Submission object of evaluate_submission's session
    client,         \* run_evaluation_container: client ("none", "open", "closed")
    container,      \* run_evaluation_container: whether container is not None
    ctr,            \* the sandbox in the Docker daemon
    stage,          \* run_evaluation_container: stage
    exc,            \* the exception in flight in run_evaluation_container
    file_kind,      \* run_evaluation_container: file_kind
    injected,       \* what put_archive wrote: "none", "tar", "py"
    proc,           \* the sandboxed process: whether it hangs, its exit code, its output
    wait_exit,      \* run_evaluation_container: exit_code, once wait() returned
    timedOut,       \* wait() ended by the client's timeout
    result,         \* the value at run_evaluation_container's return statement
    rcOutcome,      \* how the call ended: "none", "returned", "raised"
    td,             \* how each teardown step went: "none", "ok", "fail"
    hist,           \* what the call did: client created, download tried, failing stage
    lb,             \* the submission's entry in the Redis sorted set
    lbEntry,        \* whether the leaderboard_entries row was written
    evRet,          \* what evaluate_submission returned
    cleaned,        \* whether the removal of the artifacts was attempted
    evOutcome       \* how evaluate_submission ended: "none", "returned", "raised"

VARIABLES
    req,            \* submit_rl_script: file, files, main_file, client_id of the request
    spc,            \* where submit_rl_script stands
    resp,           \* the HTTP answer: status and, on a rejection, the reason
    storage,        \* the bucket: what is stored as <id>.tar and as <id>.py
    row,            \* whether the submissions row of the request was committed
    queue,          \* evaluation tasks enqueued by the request
    sandbox,        \* whether a container was created for the submission
    sandboxArchive  \* the archive put_archive was given

submitVars == <<req, spc, resp, storage, row, queue, sandbox, sandboxArchive>>
VARIABLES
    tsid,           \* two runs: the submission_id each run was called with
    tpc,            \* two runs: where each run of run_evaluation_container stands
    thandle,        \* two runs: each run's `container` (0: None, else the container's id)
    tctr,           \* the daemon: each container's name and state
    tstopBy,        \* the daemon: the runs whose stop() reached each container
    tremoveBy       \* the daemon: the runs whose remove() reached each container

twoVars == <<tsid, tpc, thandle, tctr, tstopBy, tremoveBy>>
VARIABLES
    task,           \* evaluate_submission_task: "idle", "running", "succeeded", "failed"
    retries,        \* self.request.retries of the task message
    redeliveries    \* how often the broker handed the unacknowledged message out again

taskVars == <<task, retries, redeliveries>>
VARIABLES
    tenv,           \* two runs: the env_id each run was called with
    targs           \* two runs: the arguments each run gave to containers.create

argVars == <<tenv, targs>>
VARIABLES
    ownArchive      \* what the sandbox gets from the artifact of the request that created the row

reuseVars == <<ownArchive>>
VARIABLES
    zset,           \* Redis: the ids in the environment's sorted set
    entries,        \* the database: the ids in leaderboard_entries for the environment
    wpc,            \* where warm_redis_from_db stands
    wenvs,          \* warm_redis_from_db: whether env_ids holds the environment
    wrows,          \* warm_redis_from_db: rows
    wnext,          \* warm_redis_from_db: the row the loop of line 98 is at
    apc             \* where add_submission stands, for each submission being added

warmVars == <<zset, entries, wpc, wenvs, wrows, wnext, apc>>
restVars == <<twoVars, taskVars, argVars, reuseVars, warmVars>>
parseVars == <<plogs, pdone, presult>>
runVars ==
    <<pc, env_id, stored, dbRow, sub, client, container, ctr, stage, exc, file_kind,
      injected, proc, wait_exit, timedOut, result, rcOutcome, td, hist, lb, lbEntry,
      evRet, cleaned, evOutcome>>
vars == <<parseVars, runVars, submitVars, restVars>>

NoProc == [hangs |-> FALSE, exit |-> 0, out |-> <<>>]
NoWait == [set |-> FALSE, code |-> 0]
NoTeardown == [stop |-> "none", remove |-> "none", close |-> "none"]
NoHist == [client |-> FALSE, download |-> FALSE, failedAt |-> "none"]
NoRet == [status |-> "none", score |-> NoneVal]
NoSub == [status |-> "none", score |-> NoneVal, error |-> NoError]

\* docker.py:112-114 and the state before any submission is evaluated
RunLocalsInit ==
    /\ client = "none"
    /\ container = FALSE
    /\ ctr = "absent"
    /\ stage = "init"
    /\ exc = "none"
    /\ file_kind = "none"
    /\ injected = "none"
    /\ proc = NoProc
    /\ wait_exit = NoWait
    /\ timedOut = FALSE
    /\ result = NoResult
    /\ rcOutcome = "none"
    /\ td = NoTeardown
    /\ hist = NoHist

NoResp == [status |-> 0, reason |-> "none"]
EmptyStorage == [tar |-> [has |-> FALSE, data |-> <<>>], py |-> [has |-> FALSE, data |-> ""]]

SubmitIdle ==
    /\ req = NoRequest
    /\ spc = "idle"
    /\ resp = NoResp
    /\ storage = EmptyStorage
    /\ row = FALSE
    /\ queue = 0
    /\ sandbox = FALSE
    /\ sandboxArchive = <<>>

NoContainer == [name |-> <<>>, state |-> "absent"]

TwoIdle ==
    /\ tsid = [r \in Runs |-> <<>>]
    /\ tpc = [r \in Runs |-> "idle"]
    /\ thandle = [r \in Runs |-> 0]
    /\ tctr = [c \in Runs |-> NoContainer]
    /\ tstopBy = [c \in Runs |-> {}]
    /\ tremoveBy = [c \in Runs |-> {}]

TaskIdle == task = "idle" /\ retries = 0 /\ redeliveries = 0

ArgIdle == tenv = [r \in Runs |-> <<>>] /\ targs = [r \in Runs |-> NoCreate]

ReuseIdle == ownArchive = <<>>

WarmIdle ==
    /\ zset = {}
    /\ entries = {}
    /\ wpc = "idle"
    /\ wenvs = FALSE
    /\ wrows = <<>>
    /\ wnext = 0
    /\ apc = [a \in Adding |-> "idle"]

RestIdle == TwoIdle /\ TaskIdle /\ ArgIdle /\ ReuseIdle /\ WarmIdle

ParseIdle == plogs = <<>> /\ pdone = TRUE /\ presult = EmptyDict

RunIdle ==
    /\ pc = "idle"
    /\ env_id = <<>>
    /\ stored = {}
    /\ dbRow = [exists |-> FALSE, status |-> "none", score |-> NoneVal, error |-> NoError]
    /\ sub = NoSub
    /\ RunLocalsInit
    /\ lb = [present |-> FALSE, score |-> NoneVal]
    /\ lbEntry = FALSE
    /\ evRet = NoRet
    /\ cleaned = FALSE
    /\ evOutcome = "none"

\* ------------------------------------------------ parse_evaluation_output
InitParse ==
    /\ plogs \in ParseInputs
    /\ pdone = FALSE
    /\ presult = EmptyDict
    /\ RunIdle
    /\ SubmitIdle
    /\ RestIdle

ParseCall ==
    /\ ~pdone
    /\ pdone' = TRUE
    /\ presult' = parse_evaluation_output(plogs)
    /\ UNCHANGED <<plogs, runVars, submitVars, restVars>>

NextParse == ParseCall

SpecParse == InitParse /\ [][NextParse]_vars

\* ------------------------------------------------------ evaluate_submission
\* A worker takes the evaluation task of one submission: models/submission.py:7-17
\* (the row, when there is one, is "pending" with no score).
InitRun ==
    /\ ParseIdle
    /\ SubmitIdle
    /\ RestIdle
    /\ pc = "ev_query"
    /\ env_id \in EnvIds
    /\ stored \in SUBSET {"tar", "py"}
    /\ \E e \in BOOLEAN :
          dbRow = [exists |-> e, status |-> IF e THEN "pending" ELSE "none",
                   score |-> NoneVal, error |-> NoError]
    /\ sub = NoSub
    /\ RunLocalsInit
    /\ lb = [present |-> FALSE, score |-> NoneVal]
    /\ lbEntry = FALSE
    /\ evRet = NoRet
    /\ cleaned = FALSE
    /\ evOutcome = "none"

rcLocals ==
    <<client, container, ctr, stage, exc, file_kind, injected, proc, wait_exit,
      timedOut, result, rcOutcome, td, hist>>
evOnly == <<env_id, stored, dbRow, sub, lb, lbEntry, evRet, cleaned, evOutcome>>

\* evaluation.py:55-58
EvQuery ==
    /\ pc = "ev_query"
    /\ \/ /\ pc' = "ev_except"                      \* the query raises
          /\ UNCHANGED <<sub, evRet>>
       \/ /\ ~dbRow.exists
          /\ evRet' = [status |-> "error", score |-> NoneVal]
          /\ pc' = "ev_finally"
          /\ UNCHANGED sub
       \/ /\ dbRow.exists
          /\ sub' = [status |-> dbRow.status, score |-> dbRow.score, error |-> dbRow.error]
          /\ pc' = "ev_processing"
          /\ UNCHANGED evRet
    /\ UNCHANGED <<parseVars, submitVars, restVars, rcLocals, env_id, stored, dbRow, lb, lbEntry, cleaned, evOutcome>>

\* evaluation.py:60-62
EvMarkProcessing ==
    /\ pc = "ev_processing"
    /\ sub' = [sub EXCEPT !.status = "processing"]
    /\ \/ /\ dbRow' = [dbRow EXCEPT !.status = "processing"]
          /\ pc' = "rc_validate"
       \/ /\ pc' = "ev_except"                      \* the commit raises
          /\ UNCHANGED dbRow
    /\ UNCHANGED <<parseVars, submitVars, restVars, rcLocals, env_id, stored, lb, lbEntry, evRet, cleaned, evOutcome>>

\* ------------------------------------------------- run_evaluation_container
Raise(kind) ==
    /\ exc' = kind
    /\ hist' = [hist EXCEPT !.failedAt = stage']
    /\ pc' = "rc_except"

\* docker.py:116-119
RcValidate ==
    /\ pc = "rc_validate"
    /\ stage' = "init"
    /\ IF EnvIdMissing(env_id)
       THEN Raise("Exception")
       ELSE pc' = "rc_client" /\ UNCHANGED <<exc, hist>>
    /\ UNCHANGED <<parseVars, submitVars, restVars, evOnly, client, container, ctr, file_kind, injected, proc,
                   wait_exit, timedOut, result, rcOutcome, td>>

\* docker.py:120, 67-85
RcGetClient ==
    /\ pc = "rc_client"
    /\ stage' = "init"
    /\ \/ /\ client' = "open"
          /\ hist' = [hist EXCEPT !.client = TRUE]
          /\ pc' = "rc_download"
          /\ UNCHANGED exc
       \/ /\ \E k \in {"APIError", "Exception"} : Raise(k)
          /\ UNCHANGED client
    /\ UNCHANGED <<parseVars, submitVars, restVars, evOnly, container, ctr, file_kind, injected, proc,
                   wait_exit, timedOut, result, rcOutcome, td>>

\* docker.py:140-141, 87-108: the tar bundle first, then the single script
RcDownload ==
    /\ pc = "rc_download"
    /\ stage' = "download_submission"
    /\ \/ /\ "tar" \in stored
          /\ file_kind' = "tar"
          /\ hist' = [hist EXCEPT !.download = TRUE]
          /\ pc' = "rc_create"
          /\ UNCHANGED exc
       \/ /\ "py" \in stored                        \* no tar, or its download failed
          /\ file_kind' = "py"
          /\ hist' = [hist EXCEPT !.download = TRUE]
          /\ pc' = "rc_create"
          /\ UNCHANGED exc
       \/ /\ exc' = "Exception"                     \* the .py download failed as well
          /\ hist' = [hist EXCEPT !.download = TRUE, !.failedAt = "download_submission"]
          /\ pc' = "rc_except"
          /\ UNCHANGED file_kind
    /\ UNCHANGED <<parseVars, submitVars, restVars, evOnly, client, container, ctr, injected, proc,
                   wait_exit, timedOut, result, rcOutcome, td>>

\* docker.py:153-170
RcCreate ==
    /\ pc = "rc_create"
    /\ stage' = "create_container"
    /\ \/ /\ ctr \in {"absent", "removed"}         \* the name is free in the daemon
          /\ container' = TRUE
          /\ ctr' = "created"
          /\ pc' = "rc_inject"
          /\ UNCHANGED <<exc, hist>>
       \/ /\ \E k \in ApiFailures : Raise(k)
          /\ UNCHANGED <<container, ctr>>
    /\ UNCHANGED <<parseVars, submitVars, restVars, evOnly, client, file_kind, injected, proc,
                   wait_exit, timedOut, result, rcOutcome, td>>

\* docker.py:181-197
RcInject ==
    /\ pc = "rc_inject"
    /\ stage' = "inject_script"
    /\ \/ /\ injected' = file_kind
          /\ pc' = "rc_start"
          /\ UNCHANGED <<exc, hist>>
       \/ /\ \E k \in ApiFailures : Raise(k)
          /\ UNCHANGED injected
    /\ UNCHANGED <<parseVars, submitVars, restVars, evOnly, client, container, ctr, file_kind, proc,
                   wait_exit, timedOut, result, rcOutcome, td>>

\* docker.py:199-200: the process starts; what it will do is its own business
RcStart ==
    /\ pc = "rc_start"
    /\ stage' = "start"
    /\ \/ /\ ctr' = "running"
          /\ \E h \in BOOLEAN, c \in ExitCodes, o \in ContainerLogs :
                /\ h => c = 0
                /\ proc' = [hangs |-> h, exit |-> c, out |-> o]
          /\ pc' = "rc_wait"
          /\ UNCHANGED <<exc, hist>>
       \/ /\ \E k \in ApiFailures : Raise(k)
          /\ UNCHANGED <<ctr, proc>>
    /\ UNCHANGED <<parseVars, submitVars, restVars, evOnly, client, container, file_kind, injected,
                   wait_exit, timedOut, result, rcOutcome, td>>

\* RcWait without the assignment of docker.py:212
RcWaitNoStage ==
    /\ pc = "rc_wait"
    /\ UNCHANGED stage
    /\ \/ /\ ~proc.hangs
          /\ ctr' = "exited"
          /\ wait_exit' = [set |-> TRUE,
                           code |-> ExitCodeOf([has |-> TRUE, StatusCode |-> proc.exit])]
          /\ pc' = "rc_logs"
          /\ UNCHANGED <<exc, hist, timedOut>>
       \/ /\ proc.hangs
          /\ timedOut' = TRUE
          /\ Raise("Exception")
          /\ UNCHANGED <<ctr, wait_exit>>
       \/ /\ \E k \in ApiFailures : Raise(k)
          /\ UNCHANGED <<ctr, wait_exit, timedOut>>
    /\ UNCHANGED <<parseVars, submitVars, restVars, evOnly, client, container, file_kind, injected, proc,
                   result, rcOutcome, td>>

\* docker.py:212-217.  wait() is given no timeout of its own; a process that never
\* exits is taken to end it by the timeout=420 the client was built with
\* (docker.py:75-79), which raises out of wait().
RcWait ==
    /\ pc = "rc_wait"
    /\ stage' = "wait"
    /\ \/ /\ ~proc.hangs
          /\ ctr' = "exited"
          /\ wait_exit' = [set |-> TRUE,
                           code |-> ExitCodeOf([has |-> TRUE, StatusCode |-> proc.exit])]
          /\ pc' = "rc_logs"
          /\ UNCHANGED <<exc, hist, timedOut>>
       \/ /\ proc.hangs
          /\ timedOut' = TRUE
          /\ Raise("Exception")
          /\ UNCHANGED <<ctr, wait_exit>>
       \/ /\ \E k \in ApiFailures : Raise(k)
          /\ UNCHANGED <<ctr, wait_exit, timedOut>>
    /\ UNCHANGED <<parseVars, submitVars, restVars, evOnly, client, container, file_kind, injected, proc,
                   result, rcOutcome, td>>

\* docker.py:220-247
RcCollectLogs ==
    /\ pc = "rc_logs"
    /\ stage' = "collect_logs"
    /\ \/ /\ result' = BuildResponse(wait_exit.code, DecodeReplace(proc.out))
          /\ pc' = "rc_stop"
          /\ UNCHANGED <<exc, hist>>
       \/ /\ \E k \in ApiFailures : Raise(k)
          /\ UNCHANGED result
    /\ UNCHANGED <<parseVars, submitVars, restVars, evOnly, client, container, ctr, file_kind, injected, proc,
                   wait_exit, timedOut, rcOutcome, td>>

\* What container.logs() holds for the handler.
OutputSoFar == IF ctr \in {"running", "exited"} THEN proc.out ELSE <<>>

\* docker.py:249-273
RcExcept ==
    /\ pc = "rc_except"
    /\ \/ /\ exc \in {"NotFound", "APIError"}
          /\ result' = ErrorResponse(exc, stage, <<>>)
       \/ /\ exc = "Exception"
          /\ \E fetched \in BOOLEAN :
                result' = ErrorResponse(exc, stage,
                            IF container /\ fetched /\ DecodeStrictOk(OutputSoFar)
                            THEN OutputSoFar ELSE <<>>)
    /\ pc' = "rc_stop"
    /\ UNCHANGED <<parseVars, submitVars, restVars, evOnly, client, container, ctr, stage, exc, file_kind,
                   injected, proc, wait_exit, timedOut, rcOutcome, td, hist>>

\* docker.py:276-281
RcStop ==
    /\ pc = "rc_stop"
    /\ IF container
       THEN /\ pc' = "rc_remove"
            /\ \/ /\ td' = [td EXCEPT !.stop = "ok"]
                  /\ ctr' = IF ctr = "running" THEN "exited" ELSE ctr
               \/ /\ td' = [td EXCEPT !.stop = "fail"]
                  /\ UNCHANGED ctr
       ELSE /\ pc' = "rc_close"
            /\ UNCHANGED <<td, ctr>>
    /\ UNCHANGED <<parseVars, submitVars, restVars, evOnly, client, container, stage, exc, file_kind, injected,
                   proc, wait_exit, timedOut, result, rcOutcome, hist>>

\* docker.py:282-284
RcRemove ==
    /\ pc = "rc_remove"
    /\ \/ /\ td' = [td EXCEPT !.remove = "ok"]
          /\ ctr' = "removed"
       \/ /\ td' = [td EXCEPT !.remove = "fail"]
          /\ UNCHANGED ctr
    /\ pc' = "rc_close"
    /\ UNCHANGED <<parseVars, submitVars, restVars, evOnly, client, container, stage, exc, file_kind, injected,
                   proc, wait_exit, timedOut, result, rcOutcome, hist>>

\* docker.py:285-286, and the return to evaluate_submission (evaluation.py:75-78)
RcClose ==
    /\ pc = "rc_close"
    /\ IF client = "open"
       THEN \/ /\ client' = "closed"
               /\ td' = [td EXCEPT !.close = "ok"]
               /\ rcOutcome' = "returned"
               /\ pc' = "ev_process"
            \/ /\ td' = [td EXCEPT !.close = "fail"]
               /\ rcOutcome' = "raised"
               /\ pc' = "ev_except"
               /\ UNCHANGED client
       ELSE /\ rcOutcome' = "returned"
            /\ pc' = "ev_process"
            /\ UNCHANGED <<client, td>>
    /\ UNCHANGED <<parseVars, submitVars, restVars, evOnly, container, ctr, stage, exc, file_kind, injected,
                   proc, wait_exit, timedOut, result, hist>>

\* ------------------------------------------- evaluate_submission, continued
\* leaderboard.py:122-177; the caller swallows what connect() raises (evaluation.py:106-116)
add_submission(outcome) ==
    IF outcome = "connect_fails" \/ dbRow'.status # "completed" \/ dbRow'.score = NoneVal
    THEN UNCHANGED <<lb, lbEntry>>
    ELSE IF outcome = "zadd_fails" \/ ~IsNumeric(dbRow'.score)
    THEN UNCHANGED <<lb, lbEntry>>
    ELSE /\ lb' = [present |-> TRUE, score |-> dbRow'.score]
         /\ lbEntry' = (outcome = "ok")

\* evaluation.py:80-148
EvProcess ==
    /\ pc = "ev_process"
    /\ IF IsSuccess(result)
       THEN /\ sub' = [sub EXCEPT !.score = result.output.score, !.status = "completed"]
            /\ \/ /\ dbRow' = [dbRow EXCEPT !.score = sub'.score, !.status = sub'.status]
                  /\ \E o \in {"connect_fails", "zadd_fails", "persist_fails", "ok"} :
                        add_submission(o)
                  /\ evRet' = [status |-> "completed", score |-> sub'.score]
                  /\ pc' = "ev_finally"
               \/ /\ pc' = "ev_except"              \* the commit raises
                  /\ UNCHANGED <<dbRow, lb, lbEntry, evRet>>
       ELSE /\ sub' = [sub EXCEPT !.status = "failed", !.error = FailureError(result)]
            /\ \/ /\ dbRow' = [dbRow EXCEPT !.status = sub'.status, !.error = sub'.error]
                  /\ evRet' = [status |-> "failed", score |-> NoneVal]
                  /\ pc' = "ev_finally"
                  /\ UNCHANGED <<lb, lbEntry>>
               \/ /\ pc' = "ev_except"              \* the commit raises
                  /\ UNCHANGED <<dbRow, lb, lbEntry, evRet>>
    /\ UNCHANGED <<parseVars, submitVars, restVars, rcLocals, env_id, stored, cleaned, evOutcome>>

\* evaluation.py:150-177
EvExcept ==
    /\ pc = "ev_except"
    /\ \/ UNCHANGED <<sub, dbRow>>                  \* the query raises, or finds no row
       \/ /\ dbRow.exists
          /\ sub' = [status |-> "failed", score |-> dbRow.score, error |-> SystemError]
          /\ \/ dbRow' = [dbRow EXCEPT !.status = "failed", !.error = SystemError]
             \/ UNCHANGED dbRow                     \* the commit raises
    /\ evRet' = [status |-> "error", score |-> NoneVal]
    /\ pc' = "ev_finally"
    /\ UNCHANGED <<parseVars, submitVars, restVars, rcLocals, env_id, stored, lb, lbEntry, cleaned, evOutcome>>

\* EvFinally where a failing removal is not caught and leaves through the finally
EvFinallyRemovalRaises ==
    /\ pc = "ev_finally"
    /\ cleaned' = TRUE
    /\ \/ /\ stored' = {}
          /\ pc' = "ev_close"
          /\ UNCHANGED evOutcome
       \/ /\ UNCHANGED stored
          /\ pc' = "ev_done"
          /\ evOutcome' = "raised"
    /\ UNCHANGED <<parseVars, submitVars, restVars, rcLocals, env_id, dbRow, sub, lb, lbEntry, evRet>>

\* evaluation.py:179-184, 20-45
EvFinally ==
    /\ pc = "ev_finally"
    /\ cleaned' = TRUE
    /\ \/ stored' = {}
       \/ UNCHANGED stored                          \* the removal fails: logged, ignored
    /\ pc' = "ev_close"
    /\ UNCHANGED <<parseVars, submitVars, restVars, rcLocals, env_id, dbRow, sub, lb, lbEntry, evRet,
                   evOutcome>>

\* evaluation.py:185: db.close() is outside every try of the finally block
EvClose ==
    /\ pc = "ev_close"
    /\ \/ evOutcome' = "returned"
       \/ evOutcome' = "raised"                     \* db.close() raises
    /\ pc' = "ev_done"
    /\ UNCHANGED <<parseVars, submitVars, restVars, rcLocals, env_id, stored, dbRow, sub, lb, lbEntry,
                   evRet, cleaned>>

NextRun ==
    \/ EvQuery \/ EvMarkProcessing
    \/ RcValidate \/ RcGetClient \/ RcDownload \/ RcCreate \/ RcInject \/ RcStart
    \/ RcWait \/ RcCollectLogs \/ RcExcept \/ RcStop \/ RcRemove \/ RcClose
    \/ EvProcess \/ EvExcept \/ EvFinally \/ EvClose

Spec == InitRun /\ [][NextRun]_vars

\* -------------------------------------------------- evaluate_submission_task
\* celery.py:145
max_retries == 3

\* The task message of one submission reaches a worker (celery.py:145-146).
InitTask ==
    /\ ParseIdle
    /\ SubmitIdle
    /\ TwoIdle
    /\ ArgIdle
    /\ ReuseIdle
    /\ WarmIdle
    /\ task = "running"
    /\ retries = 0
    /\ redeliveries = 0
    /\ pc = "task_begin"
    /\ env_id \in EnvIds
    /\ stored \in SUBSET {"tar", "py"}
    /\ \E e \in BOOLEAN :
          dbRow = [exists |-> e, status |-> IF e THEN "pending" ELSE "none",
                   score |-> NoneVal, error |-> NoError]
    /\ sub = NoSub
    /\ RunLocalsInit
    /\ lb = [present |-> FALSE, score |-> NoneVal]
    /\ lbEntry = FALSE
    /\ evRet = NoRet
    /\ cleaned = FALSE
    /\ evOutcome = "none"

taskOnly == <<parseVars, submitVars, twoVars, argVars, reuseVars, warmVars>>
taskKept ==
    <<sub, client, container, ctr, stage, exc, file_kind, injected, proc, wait_exit, timedOut, td,
      hist>>

\* What the sandboxed process of a task may print, and how it may exit.
TaskLogs == { <<"x">>, <<"{", "s1", "}">>, <<"{", "s1", "}", "\n", "{", "s2", "}">> }
TaskExitCodes == {0, 1}

\* docker.py:110-286 as one call: every response it can return for this submission
RunResults(e, st) ==
    IF EnvIdMissing(e)
    THEN {ErrorResponse("Exception", "init", <<>>)}
    ELSE {ErrorResponse(k, "init", <<>>) : k \in {"APIError", "Exception"}}
         \cup {ErrorResponse("Exception", "download_submission", <<>>)}
         \cup (IF st = {} THEN {}
               ELSE {ErrorResponse(k, s, <<>>) :
                        k \in ApiFailures, s \in {"create_container", "inject_script", "start"}}
                    \cup {ErrorResponse(k, s, l) :
                             k \in ApiFailures, s \in {"wait", "collect_logs"},
                             l \in {<<>>} \cup {o \in TaskLogs : DecodeStrictOk(o)}}
                    \cup {BuildResponse(ExitCodeOf([has |-> TRUE, StatusCode |-> c]),
                                        DecodeReplace(o)) :
                             c \in TaskExitCodes, o \in TaskLogs})

\* A new execution of the task body: the locals of the previous one are gone; the
\* database, the bucket and Redis are as they were left.
NewExecution ==
    /\ pc' = "task_begin"
    /\ result' = NoResult
    /\ rcOutcome' = "none"
    /\ evRet' = NoRet
    /\ cleaned' = FALSE
    /\ evOutcome' = "none"
    /\ UNCHANGED <<env_id, stored, dbRow, lb, lbEntry, taskKept>>

\* evaluation.py:150-177: the handler marks the row failed when it still can
EvHandler ==
    /\ \/ UNCHANGED dbRow                           \* the query or the commit raises, or no row
       \/ /\ dbRow.exists
          /\ dbRow' = [dbRow EXCEPT !.status = "failed", !.error = SystemError]
    /\ evRet' = [status |-> "error", score |-> NoneVal]
    /\ UNCHANGED <<lb, lbEntry>>

\* evaluation.py:179-185
EvLeave ==
    /\ cleaned' = TRUE
    /\ \/ stored' = {}
       \/ UNCHANGED stored                          \* the removal fails: logged, ignored
    /\ \/ evOutcome' = "returned"
       \/ evOutcome' = "raised"                     \* db.close() raises
    /\ pc' = "ev_done"

\* celery.py:157-172: the task's own session only reads the row; SessionLocal() of
\* celery.py:159 is outside the try
TaskBegin ==
    /\ pc = "task_begin"
    /\ task = "running"
    /\ \/ /\ pc' = "task_eval"
          /\ UNCHANGED task
       \/ /\ pc' = "ev_done"
          /\ task' = "failed"
    /\ UNCHANGED <<taskOnly, retries, redeliveries, env_id, stored, dbRow, lb, lbEntry, taskKept,
                   result, rcOutcome, evRet, cleaned, evOutcome>>

\* celery.py:173, evaluation.py:51-62: evaluate_submission up to the commit of "processing"
TaskEvaluateStart ==
    /\ pc = "task_eval"
    /\ \/ /\ pc' = "ev_done"                         \* SessionLocal() of evaluation.py:51 raises
          /\ evOutcome' = "raised"
          /\ UNCHANGED <<dbRow, evRet, cleaned, stored, lb, lbEntry>>
       \/ EvHandler /\ EvLeave                       \* the query raises
       \/ /\ ~dbRow.exists
          /\ evRet' = [status |-> "error", score |-> NoneVal]
          /\ EvLeave
          /\ UNCHANGED <<dbRow, lb, lbEntry>>
       \/ /\ dbRow.exists
          /\ \/ /\ dbRow' = [dbRow EXCEPT !.status = "processing"]
                /\ pc' = "task_run"
                /\ UNCHANGED <<evRet, cleaned, stored, lb, lbEntry, evOutcome>>
             \/ EvHandler /\ EvLeave                 \* the commit raises
    /\ UNCHANGED <<taskOnly, taskVars, env_id, taskKept, result, rcOutcome>>

\* evaluation.py:64-185: the sandbox run, the outcome committed, the finally block
TaskEvaluateRun ==
    /\ pc = "task_run"
    /\ \/ /\ ~EnvIdMissing(env_id)                   \* client.close() raises (docker.py:285)
          /\ rcOutcome' = "raised"
          /\ UNCHANGED result
          /\ EvHandler
       \/ /\ rcOutcome' = "returned"
          /\ result' \in RunResults(env_id, stored)
          /\ \/ EvHandler                            \* the commit raises
             \/ IF IsSuccess(result')
                THEN /\ dbRow' = [dbRow EXCEPT !.score = result'.output.score,
                                               !.status = "completed"]
                     /\ \E o \in {"connect_fails", "zadd_fails", "persist_fails", "ok"} :
                           add_submission(o)
                     /\ evRet' = [status |-> "completed", score |-> dbRow'.score]
                ELSE /\ dbRow' = [dbRow EXCEPT !.status = "failed",
                                               !.error = FailureError(result')]
                     /\ evRet' = [status |-> "failed", score |-> NoneVal]
                     /\ UNCHANGED <<lb, lbEntry>>
    /\ EvLeave
    /\ UNCHANGED <<taskOnly, taskVars, env_id, taskKept>>

\* celery.py:173: evaluate_submission returned, the task succeeds and is acknowledged
TaskReturn ==
    /\ pc = "ev_done"
    /\ task = "running"
    /\ evOutcome = "returned"
    /\ task' = "succeeded"
    /\ UNCHANGED <<taskOnly, runVars, retries, redeliveries>>

\* celery.py:174-175: whatever evaluate_submission raised, the task is sent again
TaskRetry ==
    /\ pc = "ev_done"
    /\ task = "running"
    /\ evOutcome = "raised"
    /\ IF retries < max_retries
       THEN /\ retries' = retries + 1
            /\ NewExecution
            /\ UNCHANGED task
       ELSE /\ task' = "failed"                       \* MaxRetriesExceededError
            /\ UNCHANGED <<runVars, retries>>
    /\ UNCHANGED <<taskOnly, redeliveries>>

\* celery.py:31-32: the message is acknowledged late and goes back to the queue when
\* the worker process is lost before that
TaskRedeliver ==
    /\ task = "running"
    /\ redeliveries < MaxRedeliveries
    /\ redeliveries' = redeliveries + 1
    /\ NewExecution
    /\ UNCHANGED <<taskOnly, task, retries>>

NextTask ==
    \/ TaskBegin \/ TaskEvaluateStart \/ TaskEvaluateRun
    \/ TaskReturn \/ TaskRetry \/ TaskRedeliver

SpecTask == InitTask /\ [][NextTask]_vars

\* ---------------------------------------------------------- submit_rl_script
\* One request to POST /submit/ for an id under which nothing is stored, and the
\* worker that stages its artifact in the sandbox.
InitSubmit ==
    /\ ParseIdle
    /\ RunIdle
    /\ RestIdle
    /\ req \in Requests
    /\ spc = "s_validate"
    /\ resp = NoResp
    /\ storage = EmptyStorage
    /\ row = FALSE
    /\ queue = 0
    /\ sandbox = FALSE
    /\ sandboxArchive = <<>>

\* submissions.py:43-89, 142-145
SubmitValidate ==
    /\ spc = "s_validate"
    /\ IF SubmitCheck(req) # "ok"
       THEN /\ resp' = [status |-> 400, reason |-> SubmitCheck(req)]
            /\ spc' = "s_done"
       ELSE /\ spc' = "s_upload"
            /\ UNCHANGED resp
    /\ UNCHANGED <<parseVars, runVars, restVars, req, storage, row, queue, sandbox, sandboxArchive>>

\* submissions.py:126-130, 150-154: the upload replaces what is stored under the
\* name ("upsert": "true")
StorageAfter(st, r) ==
    IF HasMany(r)
    THEN [st EXCEPT !.tar = [has |-> TRUE, data |-> BuildBundle(r.files, ChosenMain(r))]]
    ELSE [st EXCEPT !.py = [has |-> TRUE, data |-> r.file.content]]

\* submissions.py:91-138 (the bundle), 146-163 (the single script)
SubmitUpload ==
    /\ spc = "s_upload"
    /\ \/ /\ storage' = StorageAfter(storage, req)
          /\ spc' = "s_record"
          /\ UNCHANGED resp
       \/ /\ resp' = [status |-> 500, reason |-> "save_failed"]     \* read or upload raises
          /\ spc' = "s_done"
          /\ UNCHANGED storage
    /\ UNCHANGED <<parseVars, runVars, restVars, req, row, queue, sandbox, sandboxArchive>>

\* submissions.py:165-179
SubmitCreateRecord ==
    /\ spc = "s_record"
    /\ \/ /\ ~row                                   \* id is the primary key
          /\ row' = TRUE
          /\ spc' = "s_enqueue"
          /\ UNCHANGED resp
       \/ /\ resp' = [status |-> 500, reason |-> "record_failed"]   \* the commit raises
          /\ spc' = "s_done"
          /\ UNCHANGED row
    /\ UNCHANGED <<parseVars, runVars, restVars, req, storage, queue, sandbox, sandboxArchive>>

\* submissions.py:181-190
SubmitEnqueue ==
    /\ spc = "s_enqueue"
    /\ \/ /\ queue' = queue + 1
          /\ resp' = [status |-> 200, reason |-> "queued"]
       \/ /\ resp' = [status |-> 500, reason |-> "enqueue_failed"]  \* delay() raises
          /\ UNCHANGED queue
    /\ spc' = "s_done"
    /\ UNCHANGED <<parseVars, runVars, restVars, req, storage, row, sandbox, sandboxArchive>>

\* docker.py:87-108, 141: the bundle when it can be read, else the single script
Downloaded == {k \in {"tar", "py"} : storage[k].has}

\* docker.py:141-197 for the task the request enqueued: download, create, inject
WorkerStage ==
    /\ queue > 0
    /\ queue' = queue - 1
    /\ \/ UNCHANGED <<sandbox, sandboxArchive>>                      \* the download raises
       \/ /\ Downloaded # {}
          /\ sandbox' = FALSE
          /\ UNCHANGED sandboxArchive                               \* create raises
       \/ /\ Downloaded # {}
          /\ sandbox' = TRUE
          /\ UNCHANGED sandboxArchive                               \* put_archive raises
       \/ \E kind \in Downloaded :
             /\ sandbox' = TRUE
             /\ sandboxArchive' = IF kind = "tar" THEN storage.tar.data
                                  ELSE BuildSingleTar(storage.py.data)
    /\ UNCHANGED <<parseVars, runVars, restVars, req, spc, resp, storage, row>>

NextSubmit ==
    \/ SubmitValidate \/ SubmitUpload \/ SubmitCreateRecord \/ SubmitEnqueue \/ WorkerStage

SpecSubmit == InitSubmit /\ [][NextSubmit]_vars


\* ------------------------------------------- a second request under the same id
\* The requests that created the row of submission S.
FirstRequests ==
    { [file |-> [given |-> TRUE, filename |-> <<"a", ".py">>, content |-> "p"],
       files |-> <<>>, main_file |-> NoMain, client_id |-> "uuid"],
      [file |-> NoFile,
       files |-> << [filename |-> <<"a", ".py">>, content |-> "p"],
                    [filename |-> <<"b", ".txt">>, content |-> "p"] >>,
       main_file |-> [set |-> TRUE, name |-> <<"a", ".py">>], client_id |-> "uuid"] }

\* docker.py:87-108, 187-197: what the sandbox is given from a bucket whose
\* downloads succeed
Staged(st) ==
    IF st.tar.has THEN st.tar.data
    ELSE IF st.py.has THEN BuildSingleTar(st.py.data)
    ELSE <<>>

\* A request created the row of S, stored its artifact and enqueued the task
\* (submissions.py:43-190); a later request arrives with the same client_id.
InitReuse ==
    /\ ParseIdle
    /\ RunIdle
    /\ TwoIdle
    /\ TaskIdle
    /\ ArgIdle
    /\ WarmIdle
    /\ \E first \in FirstRequests :
          /\ storage = StorageAfter(EmptyStorage, first)
          /\ ownArchive = Staged(StorageAfter(EmptyStorage, first))
    /\ req \in {r \in Requests : r.client_id = "uuid"}
    /\ spc = "s_validate"
    /\ resp = NoResp
    /\ row = TRUE
    /\ queue = 1
    /\ sandbox = FALSE
    /\ sandboxArchive = <<>>

\* The later request never gets as far as enqueueing: its insert fails on the
\* primary key (submissions.py:165-179).
NextReuse ==
    \/ SubmitValidate \/ SubmitUpload \/ SubmitCreateRecord \/ WorkerStage

SpecReuse == InitReuse /\ [][NextReuse]_vars


\* ------------------------------------ warm_redis_from_db and add_submission
\* The API process warms Redis at start-up (main.py:63-72) while workers add the
\* submissions they have just completed (evaluation.py:106-116).  Each Redis
\* command and each database query is one step.
InitWarm ==
    /\ ParseIdle
    /\ RunIdle
    /\ SubmitIdle
    /\ TwoIdle
    /\ TaskIdle
    /\ ArgIdle
    /\ ReuseIdle
    /\ entries \in SUBSET Seeded
    /\ zset \in SUBSET entries
    /\ wpc = "w_begin"
    /\ wenvs = FALSE
    /\ wrows = <<>>
    /\ wnext = 0
    /\ apc = [a \in Adding |-> "a_begin"]

warmRest == <<parseVars, runVars, submitVars, twoVars, taskVars, argVars, reuseVars>>

\* leaderboard.py:75-80: connect, open a session, read the distinct env_ids
WarmReadEnvs ==
    /\ wpc = "w_begin"
    /\ \/ /\ wenvs' = (entries # {})
          /\ wpc' = IF entries # {} THEN "w_rows" ELSE "w_done"
       \/ /\ wpc' = "w_done"                         \* connect or the query raises
          /\ UNCHANGED wenvs
    /\ UNCHANGED <<warmRest, zset, entries, wrows, wnext, apc>>

\* leaderboard.py:82-90
WarmReadRows ==
    /\ wpc = "w_rows"
    /\ \/ /\ wrows' = QueryRows(entries)
          /\ wpc' = IF entries # {} THEN "w_delete" ELSE "w_done"
       \/ /\ wpc' = "w_done"                         \* the query raises
          /\ UNCHANGED wrows
    /\ UNCHANGED <<warmRest, zset, entries, wenvs, wnext, apc>>

\* leaderboard.py:91-97
WarmDelete ==
    /\ wpc = "w_delete"
    /\ \/ zset' = {}
       \/ UNCHANGED zset                            \* delete raises: passed over
    /\ wnext' = 1
    /\ wpc' = "w_write"
    /\ UNCHANGED <<warmRest, entries, wenvs, wrows, apc>>

\* leaderboard.py:98-113, one turn of the loop
WarmWrite ==
    /\ wpc = "w_write"
    /\ IF wnext > Len(wrows)
       THEN /\ wpc' = "w_done"
            /\ UNCHANGED <<zset, wnext>>
       ELSE \/ /\ zset' = zset \cup {wrows[wnext]}
               /\ wnext' = wnext + 1
               /\ UNCHANGED wpc
            \/ /\ wpc' = "w_done"                    \* a Redis command raises: line 115
               /\ UNCHANGED <<zset, wnext>>
    /\ UNCHANGED <<warmRest, entries, wenvs, wrows, apc>>

\* leaderboard.py:124-153: the connection, the test of status and score, zadd,
\* hset, expire
AddZadd(a) ==
    /\ apc[a] = "a_begin"
    /\ \/ /\ zset' = zset \cup {a}
          /\ apc' = [apc EXCEPT ![a] = "a_persist"]
       \/ /\ zset' = zset \cup {a}                   \* hset or expire raises: line 176
          /\ apc' = [apc EXCEPT ![a] = "a_done"]
       \/ /\ apc' = [apc EXCEPT ![a] = "a_done"]     \* connect or zadd raises
          /\ UNCHANGED zset
    /\ UNCHANGED <<warmRest, entries, wpc, wenvs, wrows, wnext>>

\* leaderboard.py:155-174
AddPersist(a) ==
    /\ apc[a] = "a_persist"
    /\ \/ entries' = entries \cup {a}
       \/ UNCHANGED entries                         \* merge or commit raises: logged
    /\ apc' = [apc EXCEPT ![a] = "a_done"]
    /\ UNCHANGED <<warmRest, zset, wpc, wenvs, wrows, wnext>>

NextWarm ==
    \/ WarmReadEnvs \/ WarmReadRows \/ WarmDelete \/ WarmWrite
    \/ \E a \in Adding : AddZadd(a) \/ AddPersist(a)

SpecWarm == InitWarm /\ [][NextWarm]_vars


\* --------------------------- two runs of run_evaluation_container at a time
\* Two workers call run_evaluation_container, for one submission_id or for two.
\* Each has its own client (docker.py:120); the daemon is the one they share.
\* A container keeps the id it was given at creation; the one run r creates is r.
InitTwo ==
    /\ ParseIdle
    /\ RunIdle
    /\ SubmitIdle
    /\ TaskIdle
    /\ ReuseIdle
    /\ WarmIdle
    /\ tsid \in [Runs -> SubmissionIds]
    /\ tenv \in [Runs -> RunEnvIds]
    /\ targs = [r \in Runs |-> NoCreate]
    /\ tpc = [r \in Runs |-> "t_begin"]
    /\ thandle = [r \in Runs |-> 0]
    /\ tctr = [c \in Runs |-> NoContainer]
    /\ tstopBy = [c \in Runs |-> {}]
    /\ tremoveBy = [c \in Runs |-> {}]

Exists(c) == tctr[c].state \notin {"absent", "removed"}

\* The daemon refuses a name that an existing container bears (409 Conflict).
NameTaken(name) == \E c \in Runs : Exists(c) /\ tctr[c].name = name

\* Teardown aimed at whichever container bears the run's name
TeardownTargetByName(r) ==
    IF NameTaken(ContainerName(tsid[r]))
    THEN CHOOSE c \in Runs : Exists(c) /\ tctr[c].name = ContainerName(tsid[r])
    ELSE 0

\* docker.py:276-282: stop and remove act on the run's own `container`
TeardownTarget(r) == thandle[r]

twoRest == <<parseVars, runVars, submitVars, taskVars, reuseVars, warmVars>>

Goto(r, l) == tpc' = [tpc EXCEPT ![r] = l]

\* docker.py:116-141: the env_id, the client, the name, the download
TBegin(r) ==
    /\ tpc[r] = "t_begin"
    /\ \/ Goto(r, "t_create")
       \/ Goto(r, "t_stop")                          \* one of them raises
    /\ UNCHANGED <<twoRest, tenv, targs, tsid, thandle, tctr, tstopBy, tremoveBy>>

\* docker.py:153-170
TCreate(r) ==
    /\ tpc[r] = "t_create"
    /\ \/ /\ ~NameTaken(ContainerName(tsid[r]))
          /\ tctr' = [tctr EXCEPT ![r] = [name |-> ContainerName(tsid[r]), state |-> "created"]]
          /\ thandle' = [thandle EXCEPT ![r] = r]
          /\ Goto(r, "t_inject")
       \/ /\ Goto(r, "t_stop")                       \* the name is taken, or create fails
          /\ UNCHANGED <<tctr, thandle>>
    /\ targs' = [targs EXCEPT ![r] = [made |-> TRUE, args |-> CreateArgs(tsid[r], tenv[r])]]
    /\ UNCHANGED <<twoRest, tenv, tsid, tstopBy, tremoveBy>>

\* docker.py:181-197
TInject(r) ==
    /\ tpc[r] = "t_inject"
    /\ \/ Exists(thandle[r]) /\ Goto(r, "t_start")
       \/ Goto(r, "t_stop")
    /\ UNCHANGED <<twoRest, tenv, targs, tsid, thandle, tctr, tstopBy, tremoveBy>>

\* docker.py:199-200
TStart(r) ==
    /\ tpc[r] = "t_start"
    /\ \/ /\ Exists(thandle[r])
          /\ tctr' = [tctr EXCEPT ![thandle[r]].state = "running"]
          /\ Goto(r, "t_wait")
       \/ /\ Goto(r, "t_stop")
          /\ UNCHANGED tctr
    /\ UNCHANGED <<twoRest, tenv, targs, tsid, thandle, tstopBy, tremoveBy>>

\* docker.py:212-221: the process exits and its output is read, or the wait or
\* the read raises
TWait(r) ==
    /\ tpc[r] = "t_wait"
    /\ \/ /\ Exists(thandle[r])
          /\ tctr' = [tctr EXCEPT ![thandle[r]].state = "exited"]
       \/ UNCHANGED tctr
    /\ Goto(r, "t_stop")
    /\ UNCHANGED <<twoRest, tenv, targs, tsid, thandle, tstopBy, tremoveBy>>

\* docker.py:276-281
TStop(r) ==
    /\ tpc[r] = "t_stop"
    /\ LET c == TeardownTarget(r)
       IN  IF c # 0
           THEN /\ Goto(r, "t_remove")
                /\ \/ /\ Exists(c)
                      /\ tctr' = [tctr EXCEPT ![c].state = "exited"]
                      /\ tstopBy' = [tstopBy EXCEPT ![c] = @ \cup {r}]
                   \/ UNCHANGED <<tctr, tstopBy>>    \* stop raises: swallowed
           ELSE /\ Goto(r, "t_close")
                /\ UNCHANGED <<tctr, tstopBy>>
    /\ UNCHANGED <<twoRest, tenv, targs, tsid, thandle, tremoveBy>>

\* docker.py:282-284
TRemove(r) ==
    /\ tpc[r] = "t_remove"
    /\ LET c == TeardownTarget(r)
       IN  \/ /\ c # 0 /\ Exists(c)
              /\ tctr' = [tctr EXCEPT ![c].state = "removed"]
              /\ tremoveBy' = [tremoveBy EXCEPT ![c] = @ \cup {r}]
           \/ UNCHANGED <<tctr, tremoveBy>>          \* remove raises: swallowed
    /\ Goto(r, "t_close")
    /\ UNCHANGED <<twoRest, tenv, targs, tsid, thandle, tstopBy>>

\* docker.py:285-286, and the return
TClose(r) ==
    /\ tpc[r] = "t_close"
    /\ Goto(r, "t_done")
    /\ UNCHANGED <<twoRest, tenv, targs, tsid, thandle, tctr, tstopBy, tremoveBy>>

NextTwo ==
    \E r \in Runs :
        \/ TBegin(r) \/ TCreate(r) \/ TInject(r) \/ TStart(r) \/ TWait(r)
        \/ TStop(r) \/ TRemove(r) \/ TClose(r)

SpecTwo == InitTwo /\ [][NextTwo]_vars


\* ================================================================= claims
Finished == rcOutcome # "none"
BlankText(t) == \A i \in 1..Len(t) : t[i] \in {" ", "\n"}

\* C1: whatever the outcome of run_evaluation_container, a container created
\* during the call no longer exists when the call ends.
C1_ContainerGoneAtReturn == (Finished /\ container) => ctr = "removed"

\* C2: no exception escapes run_evaluation_container; a failure at any stage
\* comes back as a returned value that carries an error.
C2_FailureIsReturnedNotRaised ==
    Finished =>
        /\ rcOutcome = "returned"
        /\ hist.failedAt # "none" => "error" \in result.has

\* C3: a teardown step that fails (stop, remove, closing the client) neither
\* raises to the caller nor replaces the value the call was returning.
C3_TeardownFailureSwallowed ==
    (Finished /\ "fail" \in {td.stop, td.remove, td.close}) => rcOutcome = "returned"

\* C4: when the sandboxed process never exits, the timeout ends the wait stage,
\* the process is killed, and the call returns a failure whose stage is at or
\* after "start".
C4_TimeoutEndsInFailureResult ==
    (Finished /\ timedOut) =>
        /\ rcOutcome = "returned"
        /\ "error" \in result.has
        /\ ~IsSuccess(result)
        /\ "stage" \in result.has
        /\ StageIndex(result.stage) >= StageIndex("start")
        /\ ctr # "running"

\* C5: with an empty or whitespace-only env_id the call returns an error and
\* has created no Docker client, downloaded no artifact, created no container.
C5_BlankEnvIdAllocatesNothing ==
    BlankText(env_id) =>
        /\ client = "none" /\ ~hist.client
        /\ ~hist.download /\ file_kind = "none"
        /\ ~container /\ ctr = "absent"
        /\ Finished => (rcOutcome = "returned" /\ "error" \in result.has)

C5_Witness ==
    /\ env_id = <<" ">>
    /\ rcOutcome = "returned"
    /\ "error" \in result.has
    /\ pc = "ev_done"

\* C6: a run whose exit code is nonzero is a failure whatever it printed: the
\* response's status is the exit code and it carries an error; the submission is
\* set to "failed", no score is recorded and it never enters the leaderboard.
C6_NonzeroExitIsFailure ==
    (wait_exit.set /\ wait_exit.code # 0) =>
        /\ "status" \in result.has =>
              (result.status = wait_exit.code /\ "error" \in result.has)
        /\ sub.status # "completed" /\ sub.score = NoneVal
        /\ dbRow.status # "completed" /\ dbRow.score = NoneVal
        /\ ~lb.present /\ ~lbEntry
        /\ evRet.status # "completed"
        /\ (rcOutcome = "returned" /\ pc \in {"ev_except", "ev_finally", "ev_close", "ev_done"})
              => sub.status = "failed"
        /\ evRet.status = "failed" => dbRow.status = "failed"

C6_Witness ==
    /\ wait_exit.set /\ wait_exit.code = 3
    /\ "output" \in result.has /\ result.output.has["score"]
    /\ IsNumeric(result.output.score)
    /\ evRet.status = "failed" /\ dbRow.status = "failed"
    /\ pc = "ev_done"

\* C7: a run counts as successful (no error in the response, submission
\* "completed") only if the exit code is 0 and the parsed record has a numeric
\* "score".
C7_SuccessNeedsNumericScore ==
    /\ (rcOutcome = "returned" /\ "error" \notin result.has) =>
          /\ wait_exit.set /\ wait_exit.code = 0
          /\ result.output.has["score"] /\ IsNumeric(result.output.score)
    /\ dbRow.status = "completed" =>
          /\ wait_exit.set /\ wait_exit.code = 0
          /\ result.output.has["score"] /\ IsNumeric(result.output.score)

\* C8: parse_evaluation_output returns the record of the last line, in stream
\* order, that starts with "{", ends with "}" and parses as JSON; unparsable
\* brace-delimited lines after it are skipped and no earlier line matters.
\* A line is taken as docker.py:19 takes it: without the white space around it.
Qualifying(lines) == {i \in 1..Len(lines) : BraceDelimited(lines[i]) /\ JsonLoads(lines[i]).ok}
LastOf(S) == CHOOSE i \in S : \A j \in S : j <= i

C8_LastParsableLineWins ==
    pdone =>
        LET lines == NonBlankLines(plogs)
        IN  Qualifying(lines) # {} => presult = JsonLoads(lines[LastOf(Qualifying(lines))]).val

C8_Witness ==
    /\ pdone
    /\ LET lines == NonBlankLines(plogs)
       IN  /\ Len(lines) = 3
           /\ Qualifying(lines) = {1, 2}
           /\ BraceDelimited(lines[3])
           /\ JsonLoads(lines[1]).val # JsonLoads(lines[2]).val
           /\ presult = JsonLoads(lines[2]).val

\* C9 as stated: every output with no brace-delimited record yields the error
\* "No JSON result found in logs" and a non-empty tail of the output.
NoBraceRecord(t) == ~\E i, j \in 1..Len(t) : i < j /\ t[i] = "{" /\ t[j] = "}"
IsLast(tail, t, n) ==
    /\ Len(tail) = IF Len(t) <= n THEN Len(t) ELSE n
    /\ \A i \in 1..Len(tail) : tail[i] = t[Len(t) - Len(tail) + i]

C9_Original ==
    (pdone /\ NoBraceRecord(plogs)) =>
        /\ presult.has["error"]
        /\ presult.error = <<"str", "No JSON result found in logs">>
        /\ presult.has["raw_output"]
        /\ presult.raw_output # <<>>

\* C9, amended: an output with no brace-delimited record and at least one
\* character that is not white space yields the error "No JSON result found in
\* logs" with the final 500 characters of the output, which are not empty; an
\* empty or all-white-space output yields "No output received" and no tail.
C9_NoRecordInNonBlankOutput ==
    (pdone /\ NoBraceRecord(plogs)) =>
        IF BlankText(plogs)
        THEN /\ presult.has["error"]
             /\ presult.error = <<"str", "No output received">>
             /\ ~presult.has["raw_output"]
        ELSE /\ presult.has["error"]
             /\ presult.error = <<"str", "No JSON result found in logs">>
             /\ presult.has["raw_output"]
             /\ presult.raw_output # <<>>
             /\ IsLast(presult.raw_output, plogs, 500)

C9_Witness ==
    /\ pdone
    /\ NoBraceRecord(plogs)
    /\ Len(plogs) > 500
    /\ presult.has["raw_output"]
    /\ Len(presult.raw_output) = 500

\* C10 as stated: on every failed run the surfaced error is the parsed record's
\* own "error" field when it has one, and the synthesized message otherwise.
C10_Original ==
    (rcOutcome = "returned" /\ "output" \in result.has /\ "error" \in result.has) =>
        IF result.output.has["error"]
        THEN result.error = result.output.error
        ELSE result.error = <<"str", ScoreMissingMsg>>

\* C10, amended: on a run that exits with code 0 and whose parsed record has no
\* "score", the surfaced error is the record's own "error" field when that field
\* is present and not empty, and the synthesized message otherwise; a run that
\* exits nonzero surfaces "Evaluator exited non-zero" whatever the record holds.
C10_SurfacedError ==
    (rcOutcome = "returned" /\ "output" \in result.has /\ "error" \in result.has) =>
        IF wait_exit.code # 0
        THEN result.error = <<"str", NonZeroMsg>>
        ELSE /\ ~result.output.has["score"]
             /\ IF result.output.has["error"] /\ result.output.error[2] # ""
                THEN result.error = result.output.error
                ELSE result.error = <<"str", ScoreMissingMsg>>

C10_Witness ==
    /\ rcOutcome = "returned"
    /\ wait_exit.set /\ wait_exit.code = 0
    /\ result.output.has["error"] /\ result.output.error = <<"str", "boom">>
    /\ "error" \in result.has /\ result.error = <<"str", "boom">>

\* C11: within one call the stage only moves forward, one step at a time, through
\* init, download_submission, create_container, inject_script, start, wait,
\* collect_logs; a stage is entered only after the one before it completed, none
\* is skipped and none is entered again.
PredecessorsCompleted ==
    /\ StageIndex(stage) >= StageIndex("download_submission") => hist.client
    /\ StageIndex(stage) >= StageIndex("create_container") => file_kind # "none"
    /\ StageIndex(stage) >= StageIndex("inject_script") => container
    /\ StageIndex(stage) >= StageIndex("start") => injected # "none"
    /\ StageIndex(stage) >= StageIndex("wait") => ctr \notin {"absent", "created"}
    /\ StageIndex(stage) >= StageIndex("collect_logs") => wait_exit.set

C11_StageOrder ==
    /\ [][stage' # stage =>
            /\ rcOutcome = "none"
            /\ hist.failedAt = "none"
            /\ StageIndex(stage') = StageIndex(stage) + 1]_vars
    /\ []PredecessorsCompleted

C11_Witness ==
    /\ rcOutcome = "returned"
    /\ stage = "collect_logs"
    /\ "status" \in result.has

\* C12 as stated: a run whose process exits with code 0 and whose last JSON line
\* carries a numeric score returns status 0, that score, and the stage "done".
PrintedRecord ==
    LET lines == NonBlankLines(DecodeReplace(proc.out))
    IN  IF Qualifying(lines) = {} THEN EmptyDict
        ELSE JsonLoads(lines[LastOf(Qualifying(lines))]).val
CleanScoredRun ==
    /\ rcOutcome = "returned"
    /\ hist.failedAt = "none"
    /\ ctr # "absent" /\ ~proc.hangs /\ proc.exit = 0
    /\ PrintedRecord.has["score"] /\ IsNumeric(PrintedRecord.score)

C13_StageFailureCarriesStageAndLogs ==
    (rcOutcome = "returned" /\ hist.failedAt \notin {"none", "init"}) =>
        /\ "error" \in result.has
        /\ "stage" \in result.has /\ result.stage = hist.failedAt
        /\ "logs" \in result.has

\* ------------------------------------------------------- claims on staging
SubmitDone == spc = "s_done"
MainOmitted == ~req.main_file.set
PyName(n) == n # <<>> /\ n[Len(n)] \in {".py", ".PY"}
EveryUploadNamed == \A i \in 1..Len(req.files) : req.files[i].filename # <<>>
SomeUploadIsPy == \E i \in 1..Len(req.files) : PyName(req.files[i].filename)
Injected == sandboxArchive # <<>>
CanonicalMembers(a) == {i \in 1..Len(a) : a[i].name = CanonicalName}

\* C14 as stated: a submission of more than one file that names no main_file is
\* rejected as "missing_main", whatever the files are.
C14_Original ==
    (SubmitDone /\ Len(req.files) > 1 /\ MainOmitted) =>
        (resp.status = 400 /\ resp.reason = "missing_main")

\* C14, amended: a submission of more than one file that names no main_file is
\* rejected with status 400 and stores nothing; the failure is "missing_main"
\* when the client_id is absent or valid, every upload has a file name and at
\* least one name ends in .py; otherwise the earlier validation is reported:
\* the invalid client_id, then the empty file name, then the lack of a .py file.
C14_MissingMainAfterEarlierChecks ==
    (SubmitDone /\ Len(req.files) > 1 /\ MainOmitted) =>
        /\ resp.status = 400
        /\ storage = EmptyStorage /\ ~row /\ queue = 0
        /\ resp.reason =
              IF req.client_id = "bad" THEN "bad_client_id"
              ELSE IF ~EveryUploadNamed THEN "empty_filename"
              ELSE IF ~SomeUploadIsPy THEN "no_py"
              ELSE "missing_main"

C14_Witness ==
    /\ SubmitDone
    /\ Len(req.files) = 2 /\ MainOmitted
    /\ req.files[1].filename = <<"a", ".py">> /\ req.files[2].filename = <<"b", ".txt">>
    /\ resp = [status |-> 400, reason |-> "missing_main"]

\* C15: a request that carries exactly one Python file and names no main_file is
\* staged with that file as its entry point, whether the file came in the `file`
\* field or as the only element of `files`.
OneFileNoMain ==
    /\ MainOmitted
    /\ req.client_id # "bad"
    /\ \/ req.files = <<>> /\ req.file.given /\ PyName(req.file.filename)
          /\ req.file.filename[Len(req.file.filename)] = ".py"
       \/ Len(req.files) = 1 /\ ~req.file.given /\ PyName(req.files[1].filename)

C15_OneFileBecomesEntryPoint ==
    OneFileNoMain =>
        /\ resp.status # 400
        /\ Injected =>
              \E i \in CanonicalMembers(sandboxArchive) :
                 sandboxArchive[i].content =
                    IF req.files = <<>> THEN req.file.content ELSE req.files[1].content

\* C16: for a single script (the `file` field alone) the archive put into the
\* sandbox has exactly one member, named submission.py, with the bytes submitted.
C16_SingleScriptArchive ==
    (req.files = <<>> /\ req.file.given /\ Injected) =>
        /\ Len(sandboxArchive) = 1
        /\ sandboxArchive[1].name = CanonicalName
        /\ sandboxArchive[1].content = req.file.content

C16_Witness ==
    /\ req.files = <<>> /\ req.file.given
    /\ req.file.filename = <<"d", "/", "a", ".py">> /\ req.file.content = "q"
    /\ sandbox
    /\ sandboxArchive = << [name |-> CanonicalName, content |-> "q"] >>

\* C17: whatever was accepted (one file or several, any names, any main_file),
\* the archive holds exactly one member named submission.py, and its bytes are
\* those of the designated entry point.
EntryBytes ==
    IF req.files = <<>> THEN {req.file.content}
    ELSE {req.files[i].content :
            i \in {j \in 1..Len(req.files) :
                     Basename(req.files[j].filename) = Basename(req.main_file.name)}}

C17_OneCanonicalEntry ==
    Injected =>
        /\ Cardinality(CanonicalMembers(sandboxArchive)) = 1
        /\ \A i \in CanonicalMembers(sandboxArchive) : sandboxArchive[i].content \in EntryBytes

\* C18: the archive of an accepted bundle holds every uploaded file with its
\* bytes, none dropped and none replaced by another upload or by the alias, and
\* one more member, submission.py, only when the entry point has another name.
C18_BundleKeepsEveryUpload ==
    storage.tar.has =>
        LET a == storage.tar.data
        IN  /\ \A i \in 1..Len(req.files) :
                 /\ \E j \in 1..Len(a) :
                       /\ a[j].name = Basename(req.files[i].filename)
                       /\ a[j].content = req.files[i].content
                 /\ [name |-> Basename(req.files[i].filename),
                     content |-> req.files[i].content] \in Extract(a)
            /\ Len(a) = Len(req.files)
                          + (IF Basename(req.main_file.name) # CanonicalName THEN 1 ELSE 0)

\* C19: a request that validation rejects (no file, an empty file name, no .py
\* file, main_file missing, unknown or not .py, a single file that is not .py,
\* an invalid client_id) is answered 400 and has no effect: nothing is uploaded,
\* no record is created, no task is enqueued, no sandbox is created.
InvalidRequest ==
    \/ req.client_id = "bad"
    \/ req.files = <<>> /\ ~req.file.given
    \/ req.files = <<>> /\ req.file.given
          /\ (req.file.filename = <<>> \/ req.file.filename[Len(req.file.filename)] # ".py")
    \/ req.files # <<>> /\
          \/ ~EveryUploadNamed
          \/ ~SomeUploadIsPy
          \/ MainOmitted \/ req.main_file.name = <<>>
          \/ \A i \in 1..Len(req.files) :
                Basename(req.files[i].filename) # Basename(req.main_file.name)
          \/ ~PyName(req.main_file.name)

C19_RejectionHasNoEffect ==
    InvalidRequest =>
        /\ storage = EmptyStorage
        /\ ~row
        /\ queue = 0
        /\ ~sandbox /\ sandboxArchive = <<>>
        /\ SubmitDone => resp.status = 400

C19_Witness ==
    /\ SubmitDone
    /\ InvalidRequest
    /\ resp = [status |-> 400, reason |-> "main_not_py"]
    /\ Len(req.files) = 2
    /\ storage = EmptyStorage /\ ~row /\ queue = 0 /\ ~sandbox

\* C20: when two runs of run_evaluation_container for one submission_id overlap,
\* the stop and the remove of a run's teardown reach no container but the one
\* that run created.
C20_TeardownSparesTheOtherRun ==
    tsid[1] = tsid[2] =>
        \A c \in Runs : tstopBy[c] \subseteq {c} /\ tremoveBy[c] \subseteq {c}

C20_Witness ==
    /\ tsid[1] = tsid[2]
    /\ tctr[1].state = "running"
    /\ tpc[1] = "t_wait"
    /\ thandle[2] = 0
    /\ tpc[2] = "t_done"

\* ------------------------------------------------- claims on the Celery task
\* The run of the current execution reported a stage failure or a result error.
RunEndedInFailure == rcOutcome = "returned" /\ "error" \in result.has

\* C21: a run that ended in a stage failure or a result error is terminal: no step
\* retries evaluate_submission_task for it.
C21_FailedRunIsNeverRetried ==
    [][RunEndedInFailure => retries' = retries]_vars

\* ------------------------------------------------ claims on the run, continued
ReportsImageNotFound ==
    "error" \in result.has /\ result.error = <<"str", ImageNotFoundMsg>>

\* The image was missing when the container was created: create raised NotFound.
ImageMissingAtCreate == hist.failedAt = "create_container" /\ exc = "NotFound"

\* C22: a returned run reports image-not-found exactly when the image was missing
\* at the creation of the container; a not-found raised at another stage is not
\* reported as image-not-found.
C22_ImageNotFoundOnlyFromCreate ==
    rcOutcome = "returned" => (ReportsImageNotFound <=> ImageMissingAtCreate)

\* --------------------------------------------- claims on containers.create
Created == {r \in Runs : targs[r].made}

\* What a call passed besides the environment variables and the labels.
BesidesEnvAndLabels(a) == [a EXCEPT !.environment = <<>>, !.labels = <<>>]

\* What a call passed besides the environment variables, the labels and the name.
BesidesEnvLabelsAndName(a) == [BesidesEnvAndLabels(a) EXCEPT !.name = <<>>]

LimitsAsWritten(a) ==
    /\ a.network_mode = "none"
    /\ a.mem_limit = "512m"
    /\ a.pids_limit = 50
    /\ a.cpu_quota = 50000
    /\ a.cap_drop = <<"ALL">>
    /\ a.security_opt = <<"no-new-privileges">>
    /\ a.command = <<"/home/appuser/entrypoint.sh">>

\* C23 as stated: whatever submission_id and env_id a call carries, all it passes to
\* containers.create besides the environment variables and the labels is the same.
C23_Original ==
    \A r \in Created :
        /\ LimitsAsWritten(targs[r].args)
        /\ \A q \in Created :
              BesidesEnvAndLabels(targs[q].args) = BesidesEnvAndLabels(targs[r].args)

\* C23: every call creates the container with the same limits and the same command;
\* env_id reaches it in the environment variables and the labels only, and
\* submission_id in those and in the container's name.
C23_SameLimitsIdsOutsideCommand ==
    \A r \in Created :
        /\ LimitsAsWritten(targs[r].args)
        /\ \A q \in Created :
              BesidesEnvLabelsAndName(targs[q].args) = BesidesEnvLabelsAndName(targs[r].args)
        /\ targs[r].args.environment.ENV_ID = tenv[r]
        /\ targs[r].args.environment.SUBMISSION_ID = tsid[r]
        /\ targs[r].args.labels = [submission_id |-> tsid[r], env_id |-> tenv[r]]
        /\ targs[r].args.name = ContainerName(tsid[r])

C23_Witness ==
    /\ Created = Runs
    /\ tsid[1] # tsid[2]
    /\ tenv[1] # tenv[2]
    /\ \E r \in Runs : tctr[r].state = "running"

\* --------------------------------------- claims on evaluate_submission's end
\* C24: whatever evaluate_submission returns, the removal of the submission's
\* artifacts was attempted before it left, and the attempt, failed or not, neither
\* changes the value being returned nor raises.
C24_CleanupAttemptedAndHarmless ==
    /\ [](pc \in {"ev_close", "ev_done"} => cleaned)
    /\ [][pc = "ev_finally" => (evRet' = evRet /\ evOutcome' = "none" /\ pc' = "ev_close")]_vars

\* The removal failed (the artifact is still stored) and the call returned "completed".
C24_Witness ==
    /\ pc = "ev_done"
    /\ evOutcome = "returned"
    /\ cleaned
    /\ stored # {}
    /\ evRet.status = "completed"

\* C25: once the row is "completed" with a score, no step of a later execution of
\* the task changes its status or its score.
C25_CompletedIsTerminal ==
    [][(dbRow.status = "completed" /\ dbRow.score # NoneVal)
            => (dbRow'.status = "completed" /\ dbRow'.score = dbRow.score)]_vars

\* C26: when evaluate_submission has returned for a submission whose row exists,
\* the row's status is "completed" or "failed".
C26_ReturnLeavesFinalStatus ==
    (pc = "ev_done" /\ evOutcome = "returned" /\ dbRow.exists)
        => dbRow.status \in {"completed", "failed"}

\* C27: in every state the submission's entry in the Redis sorted set, when there is
\* one, is that of a row whose status is "completed" and whose score is the entry's.
C27_LeaderboardEntryIsCompleted ==
    lb.present => (dbRow.status = "completed" /\ dbRow.score = lb.score)

\* ------------------------------------------ claims on a reused client_id
\* C28: what the sandbox of S is given is the artifact of the request that created
\* S's row, whatever a later request under the same client_id did.
C28_EvaluationRunsOwnUpload == Injected => sandboxArchive = ownArchive

\* C29: an artifact left in storage when the request has ended belongs to a row
\* that exists and to a task that was enqueued.
C29_NoArtifactWithoutRecordAndTask ==
    (SubmitDone /\ Downloaded # {}) => (row /\ resp.status = 200)

\* ------------------------------------------------ claims on the leaderboard
\* C30: once the warm-up and every add_submission have finished, each entry that
\* add_submission persisted is in the environment's sorted set.
C30_WarmUpKeepsAddedEntries ==
    (wpc = "w_done" /\ \A a \in Adding : apc[a] = "a_done")
        => \A a \in Adding : a \in entries => a \in zset
====
